---- MODULE Spec2Model ----
(***************************************************************************)
(* Places service: request validators, HTTP router and error handler, the *)
(* tool-protocol dispatcher and the normalization adapter.                 *)
(*                                                                         *)
(* JavaScript values are records [t, n, s]: t is the typeof-style tag,     *)
(* n the numeric (or boolean 0/1) payload, s the string payload.  Strings  *)
(* are sequences of tokens; the token " " is whitespace and the token "/"  *)
(* is the path separator, every other token is a run of ordinary           *)
(* characters.  Numbers are integers.                                      *)
(***************************************************************************)
EXTENDS Integers, Sequences, FiniteSets, TLC

(***************************************************************************)
(* Bounds of the model.                                                    *)
(***************************************************************************)
MaxReviews == 8
MaxPhotos == 9
MaxBetween == 2
MaxInFlight == 4

(***************************************************************************)
(* JavaScript values.                                                      *)
(***************************************************************************)
Undefined == [t |-> "undefined", n |-> 0, s |-> <<>>]

Null == [t |-> "null", n |-> 0, s |-> <<>>]

Num(k) == [t |-> "number", n |-> k, s |-> <<>>]

Str(x) == [t |-> "string", n |-> 0, s |-> x]

Bool(b) == [t |-> "boolean", n |-> IF b THEN 1 ELSE 0, s |-> <<>>]

\* a location-like value: a scalar (lat and lng unused) or an object
LocScalar(v) == [t |-> v.t, n |-> v.n, s |-> v.s, lat |-> Undefined, lng |-> Undefined]

LocObject(la, ln) == [t |-> "object", n |-> 0, s |-> <<>>, lat |-> la, lng |-> ln]

\* JavaScript truthiness (ToBoolean)
Truthy(v) ==
    CASE v.t = "undefined" -> FALSE
      [] v.t = "null" -> FALSE
      [] v.t = "boolean" -> v.n = 1
      [] v.t = "number" -> v.n # 0
      [] v.t = "string" -> v.s # <<>>
      [] OTHER -> TRUE

\* typeof v
TypeOf(v) == IF v.t = "null" THEN "object" ELSE v.t

IsWhitespace(tok) == tok = " "

\* String.prototype.trim
RECURSIVE TrimLeft(_)
TrimLeft(x) ==
    IF x # <<>> /\ IsWhitespace(Head(x)) THEN TrimLeft(Tail(x)) ELSE x

RECURSIVE TrimRight(_)
TrimRight(x) ==
    IF x # <<>> /\ IsWhitespace(x[Len(x)]) THEN TrimRight(SubSeq(x, 1, Len(x) - 1)) ELSE x

Trim(x) == TrimRight(TrimLeft(x))

\* String.prototype.includes
Includes(x, pat) ==
    \E i \in 1..(Len(x) - Len(pat) + 1) : SubSeq(x, i, i + Len(pat) - 1) = pat

\* x.split('/').pop(): the part of x after its last "/"
RECURSIVE LastSegment(_)
LastSegment(x) ==
    IF \E i \in 1..Len(x) : x[i] = "/"
    THEN LastSegment(Tail(x))
    ELSE x

\* Array.prototype.slice(0, k)
Slice(x, k) == SubSeq(x, 1, IF Len(x) < k THEN Len(x) ELSE k)

\* JSON.stringify drops a property whose value is undefined
Json(v) == IF v.t = "undefined" THEN [t |-> "absent", n |-> 0, s |-> <<>>] ELSE v

(***************************************************************************)
(* Program constants.                                                      *)
(***************************************************************************)
MaxRadius == 50000

DefaultRadius == 5000

MaxResultCount == 10

ReviewLimit == 5

PhotoLimit == 5

ToolPhotoLimit == 3

ToolReviewLimit == 5

(***************************************************************************)
(* HTTP responses.  kind tells which handler built the body.               *)
(***************************************************************************)
NoData == [t |-> "absent", n |-> 0, s |-> <<>>]

NoResponse ==
    [status |-> 0, kind |-> "none", success |-> FALSE, error |-> <<>>, code |-> "",
     data |-> NoData, count |-> -1, details |-> <<>>]

\* res.status(status).json({success: false, error, code?, details?})
ErrorResponse(status, error, code, details) ==
    [status |-> status, kind |-> "error", success |-> FALSE, error |-> error, code |-> code,
     data |-> NoData, count |-> -1, details |-> details]

\* res.json({success: true, data, count?, message})
SuccessResponse(kind, data, count) ==
    [status |-> 200, kind |-> kind, success |-> TRUE, error |-> <<>>, code |-> "",
     data |-> data, count |-> count, details |-> <<>>]

(***************************************************************************)
(* Request validators (middleware).  Each returns next = TRUE when it      *)
(* calls next(), and otherwise the response it sent.                      *)
(***************************************************************************)
CallNext == [next |-> TRUE, res |-> NoResponse]

Reject(error) == [next |-> FALSE, res |-> ErrorResponse(400, error, "", <<>>)]

isValidLocation_NoLatUpper(location) ==
    /\ Truthy(location)
    /\ TypeOf(location) = "object"
    /\ TypeOf(location.lat) = "number"
    /\ TypeOf(location.lng) = "number"
    /\ location.lat.n >= -90
    /\ location.lng.n >= -180
    /\ location.lng.n <= 180

isValidLocation(location) ==
    /\ Truthy(location)
    /\ TypeOf(location) = "object"
    /\ TypeOf(location.lat) = "number"
    /\ TypeOf(location.lng) = "number"
    /\ location.lat.n >= -90
    /\ location.lat.n <= 90
    /\ location.lng.n >= -180
    /\ location.lng.n <= 180

\* typeof radius !== 'number' || radius <= 0 || radius > 50000
BadRadius(radius) ==
    TypeOf(radius) # "number" \/ radius.n <= 0 \/ radius.n > MaxRadius

\* !v || typeof v !== 'string' || v.trim().length === 0
MissingOrBlank(v) ==
    ~Truthy(v) \/ TypeOf(v) # "string" \/ Len(Trim(v.s)) = 0

MsgQuery == <<"Query parameter is required and must be a non-empty string">>

MsgSearchLocation == <<"Location must have valid lat and lng properties">>

MsgRadius == <<"Radius must be a number between 1 and 50000 meters">>

MsgSearchType == <<"Type must be a non-empty string if provided">>

MsgNearbyLocation == <<"Valid location with lat and lng properties is required">>

MsgNearbyType == <<"Type parameter is required and must be a non-empty string">>

validateSearchParams_NoTrimType(body) ==
    IF MissingOrBlank(body.query) THEN Reject(MsgQuery)
    ELSE IF Truthy(body.location) /\ ~isValidLocation(body.location)
         THEN Reject(MsgSearchLocation)
    ELSE IF body.radius.t # "undefined" /\ BadRadius(body.radius) THEN Reject(MsgRadius)
    ELSE IF body.type.t # "undefined"
            /\ (TypeOf(body.type) # "string" \/ Len(body.type.s) = 0)
         THEN Reject(MsgSearchType)
    ELSE CallNext

validateSearchParams(body) ==
    IF MissingOrBlank(body.query) THEN Reject(MsgQuery)
    ELSE IF Truthy(body.location) /\ ~isValidLocation(body.location)
         THEN Reject(MsgSearchLocation)
    ELSE IF body.radius.t # "undefined" /\ BadRadius(body.radius) THEN Reject(MsgRadius)
    ELSE IF body.type.t # "undefined"
            /\ (TypeOf(body.type) # "string" \/ Len(Trim(body.type.s)) = 0)
         THEN Reject(MsgSearchType)
    ELSE CallNext

validateLocationParams_NoReturn(body) ==
    IF ~Truthy(body.location) \/ ~isValidLocation(body.location)
    THEN Reject(MsgNearbyLocation)
    ELSE IF MissingOrBlank(body.type) THEN Reject(MsgNearbyType)
    ELSE IF body.radius.t # "undefined" /\ BadRadius(body.radius)
    THEN [next |-> TRUE, res |-> ErrorResponse(400, MsgRadius, "", <<>>)]
    ELSE CallNext

validateLocationParams(body) ==
    IF ~Truthy(body.location) \/ ~isValidLocation(body.location)
    THEN Reject(MsgNearbyLocation)
    ELSE IF MissingOrBlank(body.type) THEN Reject(MsgNearbyType)
    ELSE IF body.radius.t # "undefined" /\ BadRadius(body.radius) THEN Reject(MsgRadius)
    ELSE CallNext

(***************************************************************************)
(* Provider data.  An absent property is Undefined (or t = "undefined").   *)
(***************************************************************************)
Absent == [t |-> "undefined", v |-> <<>>]

Array(v) == [t |-> "array", v |-> v]

NoDisplayName == [t |-> "undefined", text |-> Undefined]

DisplayName(text) == [t |-> "object", text |-> text]

NoAttribution == [t |-> "undefined", displayName |-> Undefined]

Attribution(displayName) == [t |-> "object", displayName |-> displayName]

NoLatLng == [t |-> "undefined", latitude |-> Undefined, longitude |-> Undefined]

LatLng(la, ln) == [t |-> "object", latitude |-> la, longitude |-> ln]

NoOpeningHours == [t |-> "undefined", openNow |-> Undefined, weekdayDescriptions |-> Absent]

OpeningHours(openNow, days) ==
    [t |-> "object", openNow |-> openNow, weekdayDescriptions |-> days]

\* the i-th review and photo of a provider response: all distinct, some with
\* their optional text and author missing
ProviderReview(i) ==
    [rating |-> Num((i % 5) + 1),
     text |-> IF i % 2 = 0 THEN NoDisplayName ELSE DisplayName(Str(<<"review", ToString(i)>>)),
     authorAttribution |->
        IF i % 3 = 0 THEN NoAttribution ELSE Attribution(Str(<<"author", ToString(i)>>)),
     publishTime |-> Str(<<"time", ToString(i)>>)]

ProviderPhoto(i) ==
    [name |-> IF i % 2 = 0 THEN Undefined
              ELSE Str(<<"places", "/", "p", "/", "photos", "/", ToString(i)>>),
     photoReference |-> Str(<<"ref", ToString(i)>>)]

\* a place carrying every property of the field mask
FullPlace ==
    [id |-> Str(<<"ChIJfull">>), name |-> Undefined,
     displayName |-> DisplayName(Str(<<"Joe's", " ", "Pizza">>)),
     formattedAddress |-> Str(<<"123", " ", "Main", " ", "St">>),
     location |-> LatLng(Num(40), Num(-73)),
     rating |-> Num(4), priceLevel |-> Num(2),
     types |-> Array(<<"restaurant", "meal_takeaway">>),
     currentOpeningHours |-> OpeningHours(Bool(FALSE), Array(<<"Mon", "Tue">>)),
     nationalPhoneNumber |-> Str(<<"555">>), websiteUri |-> Str(<<"https://joes.example">>),
     reviews |-> Absent, photos |-> Absent]

\* a place with no id, identified by its resource name alone
NamedPlace ==
    [FullPlace EXCEPT !.id = Undefined, !.name = Str(<<"places", "/", "ChIJnamed">>),
                      !.rating = Undefined,
                      !.currentOpeningHours = OpeningHours(Bool(TRUE), Absent)]

\* a place with no property at all
BarePlace ==
    [id |-> Undefined, name |-> Undefined, displayName |-> NoDisplayName,
     formattedAddress |-> Undefined, location |-> NoLatLng, rating |-> Undefined,
     priceLevel |-> Undefined, types |-> Absent, currentOpeningHours |-> NoOpeningHours,
     nationalPhoneNumber |-> Undefined, websiteUri |-> Undefined,
     reviews |-> Absent, photos |-> Absent]

\* a place whose resource name ends in the separator
SlashPlace == [BarePlace EXCEPT !.name = Str(<<"places", "/">>)]

Count(max) == {-1} \cup (0..max)

\* n reviews and m photos; -1 leaves the property out
WithMedia(place, n, m) ==
    [place EXCEPT
        !.reviews = IF n < 0 THEN Absent ELSE Array([i \in 1..n |-> ProviderReview(i)]),
        !.photos = IF m < 0 THEN Absent ELSE Array([i \in 1..m |-> ProviderPhoto(i)])]

\* what getPlace can resolve with
DetailPlaces ==
    {WithMedia(p, n, m) : p \in {FullPlace, BarePlace}, n \in Count(MaxReviews),
                          m \in Count(MaxPhotos)}

\* the detail responses used when both surfaces are compared
PairDetailPlaces ==
    {WithMedia(FullPlace, n, m) : n \in {-1, 2, MaxReviews}, m \in {-1, 2, MaxPhotos}}

\* the optional properties of a provider place
OptionalFields ==
    {"displayName", "formattedAddress", "location", "rating", "priceLevel", "types",
     "currentOpeningHours", "nationalPhoneNumber", "websiteUri", "reviews", "photos"}

\* a place carrying every optional property but the missing ones
PlaceWithout(missing) ==
    LET full == WithMedia(FullPlace, 2, 2)
        pick(f, present, absent) == IF f \in missing THEN absent ELSE present
    IN  [id |-> full.id, name |-> full.name,
         displayName |-> pick("displayName", full.displayName, NoDisplayName),
         formattedAddress |-> pick("formattedAddress", full.formattedAddress, Undefined),
         location |-> pick("location", full.location, NoLatLng),
         rating |-> pick("rating", full.rating, Undefined),
         priceLevel |-> pick("priceLevel", full.priceLevel, Undefined),
         types |-> pick("types", full.types, Absent),
         currentOpeningHours |->
            pick("currentOpeningHours", full.currentOpeningHours, NoOpeningHours),
         nationalPhoneNumber |-> pick("nationalPhoneNumber", full.nationalPhoneNumber,
                                      Undefined),
         websiteUri |-> pick("websiteUri", full.websiteUri, Undefined),
         reviews |-> pick("reviews", full.reviews, Absent),
         photos |-> pick("photos", full.photos, Absent)]

\* every subset of the optional properties missing
SubsetPlaces == {PlaceWithout(missing) : missing \in SUBSET OptionalFields}

\* display name, address and opening hours missing, empty and filled
VariantPlaces ==
    {[FullPlace EXCEPT !.displayName = d, !.formattedAddress = a,
                       !.currentOpeningHours = h] :
        d \in {NoDisplayName, DisplayName(Undefined), DisplayName(Str(<<>>)),
               DisplayName(Str(<<"Joe's", " ", "Pizza">>))},
        a \in {Undefined, Str(<<>>), Str(<<"123", " ", "Main", " ", "St">>)},
        h \in {NoOpeningHours, OpeningHours(Undefined, Absent),
               OpeningHours(Bool(TRUE), Array(<<"Mon">>)),
               OpeningHours(Bool(FALSE), Absent)}}

\* the detail responses used when the properties of a place are varied
FieldPlaces == SubsetPlaces \cup VariantPlaces

\* what searchText and searchNearby can resolve with (response[0].places)
ListResponses ==
    {Absent, Array(<<>>), Array(<<FullPlace>>), Array(<<NamedPlace, FullPlace>>),
     Array(<<FullPlace, SlashPlace, BarePlace>>)}

\* what a provider call can reject with
NoCode == "undefined"

ProviderErrors ==
    {[name |-> "Error", message |-> <<"Quota exceeded for ", "quota", " metric">>,
      code |-> "8"],
     [name |-> "Error", message |-> <<"Rate limited">>, code |-> "OVER_QUERY_LIMIT"],
     [name |-> "Error", message |-> <<"API key", " not valid">>, code |-> NoCode],
     [name |-> "Error", message |-> <<"Denied">>, code |-> "REQUEST_DENIED"],
     [name |-> "Error", message |-> <<"ECONNRESET">>, code |-> NoCode]}

(***************************************************************************)
(* Normalization adapter: inbound mapping.                                 *)
(***************************************************************************)
\* a || b
Or(a, b) == IF Truthy(a) THEN a ELSE b

\* template-literal conversion `${v}`
ToStr(v) ==
    CASE v.t = "string" -> v.s
      [] v.t = "number" -> <<ToString(v.n)>>
      [] v.t = "boolean" -> IF v.n = 1 THEN <<"true">> ELSE <<"false">>
      [] OTHER -> <<v.t>>

\* place.id || place.name?.split('/').pop()
PlaceId(place) ==
    Or(place.id,
       IF place.name.t \in {"undefined", "null"} THEN Undefined
       ELSE Str(LastSegment(place.name.s)))

formatSearchResult_NoLocationDefault(place) ==
    [id |-> PlaceId(place),
     name |-> Or(IF place.displayName.t = "undefined" THEN Undefined
                 ELSE place.displayName.text,
                 Str(<<"Unknown">>)),
     address |-> Or(place.formattedAddress, Str(<<"Address not available">>)),
     location |->
        [lat |-> IF place.location.t = "undefined" THEN Undefined
                 ELSE place.location.latitude,
         lng |-> IF place.location.t = "undefined" THEN Undefined
                 ELSE place.location.longitude],
     rating |-> place.rating,
     priceLevel |-> place.priceLevel,
     types |-> IF place.types.t = "undefined" THEN <<>> ELSE place.types.v,
     isOpen |-> IF place.currentOpeningHours.t = "undefined" THEN Undefined
                ELSE place.currentOpeningHours.openNow]

formatSearchResult_DefaultType(place) ==
    [id |-> PlaceId(place),
     name |-> Or(IF place.displayName.t = "undefined" THEN Undefined
                 ELSE place.displayName.text,
                 Str(<<"Unknown">>)),
     address |-> Or(place.formattedAddress, Str(<<"Address not available">>)),
     location |->
        [lat |-> Or(IF place.location.t = "undefined" THEN Undefined
                    ELSE place.location.latitude, Num(0)),
         lng |-> Or(IF place.location.t = "undefined" THEN Undefined
                    ELSE place.location.longitude, Num(0))],
     rating |-> place.rating,
     priceLevel |-> place.priceLevel,
     types |-> IF place.types.t = "undefined" THEN <<"establishment">> ELSE place.types.v,
     isOpen |-> IF place.currentOpeningHours.t = "undefined" THEN Undefined
                ELSE place.currentOpeningHours.openNow]

formatSearchResult_NullishName(place) ==
    [id |-> PlaceId(place),
     name |-> IF place.displayName.t = "undefined" \/ place.displayName.text.t = "undefined"
              THEN Str(<<"Unknown">>) ELSE place.displayName.text,
     address |-> Or(place.formattedAddress, Str(<<"Address not available">>)),
     location |->
        [lat |-> Or(IF place.location.t = "undefined" THEN Undefined
                    ELSE place.location.latitude, Num(0)),
         lng |-> Or(IF place.location.t = "undefined" THEN Undefined
                    ELSE place.location.longitude, Num(0))],
     rating |-> place.rating,
     priceLevel |-> place.priceLevel,
     types |-> IF place.types.t = "undefined" THEN <<>> ELSE place.types.v,
     isOpen |-> IF place.currentOpeningHours.t = "undefined" THEN Undefined
                ELSE place.currentOpeningHours.openNow]

formatSearchResult_OpenDefaulted(place) ==
    [id |-> PlaceId(place),
     name |-> Or(IF place.displayName.t = "undefined" THEN Undefined
                 ELSE place.displayName.text,
                 Str(<<"Unknown">>)),
     address |-> Or(place.formattedAddress, Str(<<"Address not available">>)),
     location |->
        [lat |-> Or(IF place.location.t = "undefined" THEN Undefined
                    ELSE place.location.latitude, Num(0)),
         lng |-> Or(IF place.location.t = "undefined" THEN Undefined
                    ELSE place.location.longitude, Num(0))],
     rating |-> place.rating,
     priceLevel |-> place.priceLevel,
     types |-> IF place.types.t = "undefined" THEN <<>> ELSE place.types.v,
     isOpen |-> Or(IF place.currentOpeningHours.t = "undefined" THEN Undefined
                   ELSE place.currentOpeningHours.openNow, Bool(FALSE))]

\* one element of formatSearchResults' map
formatSearchResult(place) ==
    [id |-> PlaceId(place),
     name |-> Or(IF place.displayName.t = "undefined" THEN Undefined
                 ELSE place.displayName.text,
                 Str(<<"Unknown">>)),
     address |-> Or(place.formattedAddress, Str(<<"Address not available">>)),
     location |->
        [lat |-> Or(IF place.location.t = "undefined" THEN Undefined
                    ELSE place.location.latitude, Num(0)),
         lng |-> Or(IF place.location.t = "undefined" THEN Undefined
                    ELSE place.location.longitude, Num(0))],
     rating |-> place.rating,
     priceLevel |-> place.priceLevel,
     types |-> IF place.types.t = "undefined" THEN <<>> ELSE place.types.v,
     isOpen |-> IF place.currentOpeningHours.t = "undefined" THEN Undefined
                ELSE place.currentOpeningHours.openNow]

formatSearchResults_Reversed(places) ==
    [i \in 1..Len(places) |-> formatSearchResult(places[Len(places) + 1 - i])]

formatSearchResults(places) == [i \in 1..Len(places) |-> formatSearchResult(places[i])]

formatReview(review) ==
    [rating |-> review.rating,
     text |-> Or(IF review.text.t = "undefined" THEN Undefined ELSE review.text.text,
                 Str(<<>>)),
     author |-> Or(IF review.authorAttribution.t = "undefined" THEN Undefined
                   ELSE review.authorAttribution.displayName,
                   Str(<<"Anonymous">>)),
     time |-> review.publishTime]

\* the media URL templated from the photo's resource name and the credential
PhotoUrl(photo, apiKey) ==
    <<"https://places.googleapis.com/v1/">>
        \o ToStr(Or(photo.name, photo.photoReference))
        \o <<"/media?maxHeightPx=400&maxWidthPx=400&key=">>
        \o ToStr(apiKey)

formatPlaceDetails_SliceThree(place, apiKey) ==
    LET baseInfo == formatSearchResults(<<place>>)[1]
        url(photo) == PhotoUrl(photo, apiKey)
    IN  [id |-> baseInfo.id, name |-> baseInfo.name, address |-> baseInfo.address,
         location |-> baseInfo.location, rating |-> baseInfo.rating,
         priceLevel |-> baseInfo.priceLevel, types |-> baseInfo.types,
         isOpen |-> baseInfo.isOpen,
         phoneNumber |-> place.nationalPhoneNumber,
         website |-> place.websiteUri,
         openingHours |->
            IF place.currentOpeningHours.t = "undefined"
               \/ place.currentOpeningHours.weekdayDescriptions.t = "undefined"
            THEN <<>> ELSE place.currentOpeningHours.weekdayDescriptions.v,
         reviews |-> IF place.reviews.t = "undefined" THEN <<>>
                     ELSE [i \in 1..Len(Slice(place.reviews.v, ReviewLimit)) |->
                            formatReview(place.reviews.v[i])],
         photos |-> IF place.photos.t = "undefined" THEN <<>>
                    ELSE [i \in 1..Len(Slice(place.photos.v, ToolPhotoLimit)) |->
                            url(place.photos.v[i])]]

formatPlaceDetails(place, apiKey) ==
    LET baseInfo == formatSearchResults(<<place>>)[1]
        url(photo) == PhotoUrl(photo, apiKey)
    IN  [id |-> baseInfo.id, name |-> baseInfo.name, address |-> baseInfo.address,
         location |-> baseInfo.location, rating |-> baseInfo.rating,
         priceLevel |-> baseInfo.priceLevel, types |-> baseInfo.types,
         isOpen |-> baseInfo.isOpen,
         phoneNumber |-> place.nationalPhoneNumber,
         website |-> place.websiteUri,
         openingHours |->
            IF place.currentOpeningHours.t = "undefined"
               \/ place.currentOpeningHours.weekdayDescriptions.t = "undefined"
            THEN <<>> ELSE place.currentOpeningHours.weekdayDescriptions.v,
         reviews |-> IF place.reviews.t = "undefined" THEN <<>>
                     ELSE [i \in 1..Len(Slice(place.reviews.v, ReviewLimit)) |->
                            formatReview(place.reviews.v[i])],
         photos |-> IF place.photos.t = "undefined" THEN <<>>
                    ELSE [i \in 1..Len(Slice(place.photos.v, PhotoLimit)) |->
                            url(place.photos.v[i])]]

(***************************************************************************)
(* Normalization adapter: outbound mapping.  Each builder returns either   *)
(* the provider request or the error thrown before any call is made.       *)
(***************************************************************************)
NoError == [name |-> "none", message |-> <<>>, code |-> NoCode]

Error(message) == [name |-> "Error", message |-> message, code |-> NoCode]

NoRequest == [method |-> "none"]

NoCircle ==
    [t |-> "undefined", center |-> [latitude |-> Undefined, longitude |-> Undefined],
     radius |-> Undefined]

Circle(location, radius) ==
    [t |-> "object",
     center |-> [latitude |-> location.lat, longitude |-> location.lng],
     radius |-> radius]

\* destructuring and parameter default: applies to undefined alone
Default(v, d) == IF v.t = "undefined" THEN d ELSE v

searchTextRequest_BiasFromRadius(params) ==
    [method |-> "searchText",
     textQuery |-> params.query,
     maxResultCount |-> MaxResultCount,
     locationBias |->
        IF Truthy(params.location) \/ Truthy(params.radius)
        THEN Circle(params.location, Default(params.radius, Num(DefaultRadius)))
        ELSE NoCircle,
     includedType |-> IF Truthy(params.type) THEN params.type ELSE Undefined]

searchTextRequest(params) ==
    [method |-> "searchText",
     textQuery |-> params.query,
     maxResultCount |-> MaxResultCount,
     locationBias |->
        IF Truthy(params.location)
        THEN Circle(params.location, Default(params.radius, Num(DefaultRadius)))
        ELSE NoCircle,
     includedType |-> IF Truthy(params.type) THEN params.type ELSE Undefined]

getPlaceRequest(placeId) ==
    [method |-> "getPlace", name |-> <<"places", "/">> \o ToStr(placeId)]

searchNearbyRequest_FixedRadius(location, type, radius) ==
    [method |-> "searchNearby",
     includedTypes |-> <<type>>,
     maxResultCount |-> MaxResultCount,
     locationRestriction |-> Circle(location, Num(DefaultRadius))]

searchNearbyRequest(location, type, radius) ==
    [method |-> "searchNearby",
     includedTypes |-> <<type>>,
     maxResultCount |-> MaxResultCount,
     locationRestriction |-> Circle(location, Default(radius, Num(DefaultRadius)))]

\* reading location.lat throws when location is null or undefined
ThrowsOnRead(location) == location.t \in {"undefined", "null"}

MsgSearchFailed == <<"Failed to search places">>

MsgDetailsFailed == <<"Failed to get place details">>

MsgNearbyFailed == <<"Failed to find nearby places">>

MsgKeyRequired == <<"GOOGLE_PLACES_API_KEY", " environment variable is required">>

\* the generic error each adapter method re-raises from its catch block
AdapterError(op) ==
    CASE op = "search" -> Error(MsgSearchFailed)
      [] op = "details" -> Error(MsgDetailsFailed)
      [] op = "nearby" -> Error(MsgNearbyFailed)

CatchBlock_Rethrows(op, caught) == caught

\* catch (error) { console.error(...); throw new Error('Failed to ...') }
CatchBlock(op, caught) == AdapterError(op)

(***************************************************************************)
(* HTTP error handler.                                                     *)
(***************************************************************************)
errorHandler_ValidationFirst(error, NODE_ENV) ==
    IF error.name = "ValidationError"
    THEN ErrorResponse(400, error.message, "VALIDATION_ERROR", <<>>)
    ELSE IF Includes(error.message, <<"quota">>) \/ error.code = "OVER_QUERY_LIMIT"
    THEN ErrorResponse(429, <<"API quota exceeded. Please try again later.">>,
                       "QUOTA_EXCEEDED", <<>>)
    ELSE IF Includes(error.message, <<"API key">>) \/ error.code = "REQUEST_DENIED"
    THEN ErrorResponse(401, <<"Invalid API key configuration.">>, "INVALID_API_KEY", <<>>)
    ELSE ErrorResponse(500, <<"Internal server error occurred.">>, "INTERNAL_ERROR",
                       IF NODE_ENV = Str(<<"development">>) THEN <<error.message>> ELSE <<>>)

errorHandler_DetailsUnlessProduction(error, NODE_ENV) ==
    IF Includes(error.message, <<"quota">>) \/ error.code = "OVER_QUERY_LIMIT"
    THEN ErrorResponse(429, <<"API quota exceeded. Please try again later.">>,
                       "QUOTA_EXCEEDED", <<>>)
    ELSE IF Includes(error.message, <<"API key">>) \/ error.code = "REQUEST_DENIED"
    THEN ErrorResponse(401, <<"Invalid API key configuration.">>, "INVALID_API_KEY", <<>>)
    ELSE IF error.name = "ValidationError"
    THEN ErrorResponse(400, error.message, "VALIDATION_ERROR", <<>>)
    ELSE ErrorResponse(500, <<"Internal server error occurred.">>, "INTERNAL_ERROR",
                       IF NODE_ENV # Str(<<"production">>) THEN <<error.message>> ELSE <<>>)

errorHandler(error, NODE_ENV) ==
    IF Includes(error.message, <<"quota">>) \/ error.code = "OVER_QUERY_LIMIT"
    THEN ErrorResponse(429, <<"API quota exceeded. Please try again later.">>,
                       "QUOTA_EXCEEDED", <<>>)
    ELSE IF Includes(error.message, <<"API key">>) \/ error.code = "REQUEST_DENIED"
    THEN ErrorResponse(401, <<"Invalid API key configuration.">>, "INVALID_API_KEY", <<>>)
    ELSE IF error.name = "ValidationError"
    THEN ErrorResponse(400, error.message, "VALIDATION_ERROR", <<>>)
    ELSE ErrorResponse(500, <<"Internal server error occurred.">>, "INTERNAL_ERROR",
                       IF NODE_ENV = Str(<<"development">>) THEN <<error.message>> ELSE <<>>)

(***************************************************************************)
(* Routing.  Routes are tried in the order of their registration.          *)
(***************************************************************************)
Routes ==
    <<[method |-> "GET", pattern |-> <<"health">>, handler |-> "health"],
      [method |-> "POST", pattern |-> <<"api", "places", "search">>, handler |-> "search"],
      [method |-> "GET", pattern |-> <<"api", "places", ":placeId">>, handler |-> "details"],
      [method |-> "POST", pattern |-> <<"api", "places", "nearby">>, handler |-> "nearby"],
      [method |-> "GET", pattern |-> <<"api", "places", "types">>, handler |-> "types"]>>

IsParam(segment) == segment = ":placeId"

Matches(route, method, path) ==
    /\ route.method = method
    /\ Len(route.pattern) = Len(path)
    /\ \A i \in 1..Len(path) : IsParam(route.pattern[i]) \/ route.pattern[i] = path[i]

\* index of the first registered route that matches, 0 when none does
MatchRoute(method, path) ==
    IF \E i \in 1..Len(Routes) : Matches(Routes[i], method, path)
    THEN CHOOSE i \in 1..Len(Routes) :
            /\ Matches(Routes[i], method, path)
            /\ \A j \in 1..(i - 1) : ~Matches(Routes[j], method, path)
    ELSE 0

\* req.params.placeId of the matched route
PlaceIdParam(route, path) ==
    IF \E i \in 1..Len(path) : IsParam(route.pattern[i])
    THEN Str(<<path[CHOOSE i \in 1..Len(path) : IsParam(route.pattern[i])]>>)
    ELSE Undefined

commonTypes ==
    <<"restaurant", "gas_station", "hospital", "pharmacy", "bank", "atm", "shopping_mall",
      "grocery_store", "hotel", "tourist_attraction", "park", "school", "university", "gym",
      "movie_theater", "library", "church", "mosque", "synagogue", "police", "fire_station",
      "post_office", "car_rental", "car_repair", "beauty_salon", "hair_care", "dentist",
      "doctor", "veterinary_care">>

(***************************************************************************)
(* Serialized results.  Both shells send JSON.                             *)
(***************************************************************************)
JsonResult(place) ==
    [id |-> Json(place.id), name |-> Json(place.name), address |-> Json(place.address),
     location |-> place.location, rating |-> Json(place.rating),
     priceLevel |-> Json(place.priceLevel), types |-> place.types,
     isOpen |-> Json(place.isOpen)]

JsonDetails(d, reviews, photos) ==
    [id |-> Json(d.id), name |-> Json(d.name), address |-> Json(d.address),
     location |-> d.location, rating |-> Json(d.rating),
     priceLevel |-> Json(d.priceLevel), types |-> d.types, isOpen |-> Json(d.isOpen),
     phoneNumber |-> Json(d.phoneNumber), website |-> Json(d.website),
     openingHours |-> d.openingHours, reviews |-> reviews, photos |-> photos]

\* the data of the HTTP success envelope
HttpData(result) ==
    IF result.t = "list" THEN [i \in 1..Len(result.v) |-> JsonResult(result.v[i])]
    ELSE JsonDetails(result.v, result.v.reviews, result.v.photos)

\* results / placeDetails of the tool envelope
ToolData(result) ==
    IF result.t = "list" THEN [i \in 1..Len(result.v) |-> JsonResult(result.v[i])]
    ELSE JsonDetails(result.v, Slice(result.v.reviews, ToolReviewLimit),
                     Slice(result.v.photos, ToolPhotoLimit))

NoToolResponse == [isError |-> FALSE, kind |-> "none", text |-> <<>>, data |-> NoData,
                   count |-> -1]

ToolSuccess(kind, data, count) ==
    [isError |-> FALSE, kind |-> kind, text |-> <<>>, data |-> data, count |-> count]

ToolError_Unflagged(name, message) ==
    [isError |-> FALSE, kind |-> "error", text |-> <<"Error executing ", name, ": ">> \o message,
     data |-> NoData, count |-> -1]

ToolError(name, message) ==
    [isError |-> TRUE, kind |-> "error", text |-> <<"Error executing ", name, ": ">> \o message,
     data |-> NoData, count |-> -1]

(***************************************************************************)
(* Inputs.                                                                 *)
(***************************************************************************)
QueryValues == {Undefined, Str(<<>>), Str(<<" ">>), Str(<<"pizza">>), Num(5)}

LocationValues ==
    {LocScalar(Undefined), LocScalar(Null), LocScalar(Bool(FALSE)), LocScalar(Num(0)),
     LocScalar(Str(<<>>)), LocScalar(Str(<<"here">>)),
     LocObject(Num(10), Num(20)), LocObject(Num(90), Num(180)),
     LocObject(Num(-90), Num(-180)), LocObject(Num(200), Num(0)),
     LocObject(Num(-91), Num(0)), LocObject(Num(0), Num(181)),
     LocObject(Num(0), Num(-181)), LocObject(Str(<<"10">>), Num(20)),
     LocObject(Num(10), Undefined)}

RadiusValues ==
    {Undefined, Null, Num(0), Num(-1), Num(1000), Num(MaxRadius), Num(MaxRadius + 1),
     Str(<<"100">>)}

TypeValues == {Undefined, Null, Str(<<>>), Str(<<" ">>), Str(<<"cafe">>)}

PlaceIdValues == {Undefined, Str(<<"ChIJabc">>), Str(<<"types">>)}

EmptyBody ==
    [query |-> Undefined, location |-> LocScalar(Undefined), radius |-> Undefined,
     type |-> Undefined, placeId |-> Undefined]

SearchBodies ==
    {[EmptyBody EXCEPT !.query = q, !.location = l, !.radius = r, !.type = ty] :
        q \in QueryValues, l \in LocationValues, r \in RadiusValues, ty \in TypeValues}

NearbyBodies ==
    {[EmptyBody EXCEPT !.location = l, !.radius = r, !.type = ty] :
        l \in LocationValues, r \in RadiusValues, ty \in TypeValues}

DetailBodies == {[EmptyBody EXCEPT !.placeId = p] : p \in PlaceIdValues}

\* the HTTP requests: method, path and parsed JSON body
HttpRequests ==
    {<<"GET", <<"health">>, EmptyBody>>}
    \cup {<<"GET", <<"api", "places", p.s[1]>>, EmptyBody>> :
            p \in PlaceIdValues \ {Undefined}}
    \cup {<<"POST", <<"api", "places", "search">>, b>> : b \in SearchBodies}
    \cup {<<"POST", <<"api", "places", "nearby">>, b>> : b \in NearbyBodies}

\* the tool invocations: name and arguments
ToolCalls ==
    {<<"search_places", b>> : b \in SearchBodies}
    \cup {<<"find_nearby_places", b>> : b \in NearbyBodies}
    \cup {<<"get_place_details", b>> : b \in DetailBodies}
    \cup {<<"get_place_types", EmptyBody>>, <<"delete_place", EmptyBody>>}

\* inputs that both surfaces accept
ValidSearchBodies ==
    {[EmptyBody EXCEPT !.query = Str(<<"pizza">>), !.location = l, !.radius = r, !.type = ty] :
        l \in {LocScalar(Undefined), LocObject(Num(10), Num(20))},
        r \in {Undefined, Num(1000)}, ty \in {Undefined, Str(<<"cafe">>)}}

ValidNearbyBodies ==
    {[EmptyBody EXCEPT !.location = LocObject(Num(10), Num(20)), !.radius = r,
                       !.type = Str(<<"cafe">>)] : r \in {Undefined, Num(1000)}}

ValidHttpRequests ==
    {<<"GET", <<"api", "places", "ChIJabc">>, EmptyBody>>}
    \cup {<<"POST", <<"api", "places", "search">>, b>> : b \in ValidSearchBodies}
    \cup {<<"POST", <<"api", "places", "nearby">>, b>> : b \in ValidNearbyBodies}

ValidToolCalls ==
    {<<"search_places", b>> : b \in ValidSearchBodies}
    \cup {<<"find_nearby_places", b>> : b \in ValidNearbyBodies}
    \cup {<<"get_place_details", [EmptyBody EXCEPT !.placeId = Str(<<"ChIJabc">>)]>>}

\* errors a middleware or a handler may pass to next(error)
ErrorInputs ==
    {[name |-> n, message |-> m, code |-> c] :
        n \in {"Error", "ValidationError", "SyntaxError"},
        m \in {<<"Failed to search places">>, <<"Daily ", "quota", " exceeded">>,
               <<"API key", " not valid">>, <<"quota", " of the ", "API key">>,
               <<"query is required">>, <<>>},
        c \in {NoCode, "OVER_QUERY_LIMIT", "REQUEST_DENIED", "8"}}

ApiKeyValues == {Undefined, Str(<<"KEY">>)}

NodeEnvValues == {Undefined, Str(<<"development">>), Str(<<"production">>)}

(***************************************************************************)
(* State.                                                                  *)
(***************************************************************************)
VARIABLES
    env,            \* process.env: GOOGLE_PLACES_API_KEY and NODE_ENV
    proc,           \* the HTTP server and the tool-protocol server processes
    _placesService,  \* _placesService of each process: "null" or "instance"
    pc,             \* position of the request being served
    req,            \* the request being served
    nextCalls,      \* times the validator called next() for it
    providerCalls,  \* provider calls made for it
    outbound,       \* the provider request made for it
    outcome,        \* how the provider call ended
    error,          \* the error passed to next(error)
    result,         \* what the adapter method returned
    res,            \* the HTTP response sent
    toolRes,        \* the tool response returned
    tally,          \* times res.json and next(error) were called for it
    last,           \* the last successful exchange of each surface
    earlier,        \* one earlier normalization, and how many followed it
    currentView,    \* browser client: 'formatted' or 'json'
    hidden,         \* browser client: which elements carry the class 'hidden'
    inFlight        \* browser client: requests started and not yet settled

vars ==
    <<env, proc, _placesService, pc, req, nextCalls, providerCalls, outbound, outcome, error,
      result, res, toolRes, tally, last, earlier, currentView, hidden, inFlight>>

\* the state of the two server processes
serverVars ==
    <<env, proc, _placesService, pc, req, nextCalls, providerCalls, outbound, outcome, error,
      result, res, toolRes, tally, last, earlier>>

NoReq ==
    [surface |-> "none", method |-> "", path |-> <<>>, route |-> "", tool |-> "",
     params |-> [placeId |-> Undefined], body |-> EmptyBody]

NoOutcome == [t |-> "none"]

NoResult == [t |-> "none"]

NoTally == [json |-> 0, nextError |-> 0]

NoLast == [t |-> "none"]

NoEarlier == [t |-> "none"]

Init ==
    /\ env \in [GOOGLE_PLACES_API_KEY : ApiKeyValues, NODE_ENV : NodeEnvValues]
    /\ proc = [http |-> "init", mcp |-> "init"]
    /\ _placesService = [http |-> "null", mcp |-> "null"]
    /\ pc = "idle"
    /\ req = NoReq
    /\ nextCalls = 0
    /\ providerCalls = 0
    /\ outbound = NoRequest
    /\ outcome = NoOutcome
    /\ error = NoError
    /\ result = NoResult
    /\ res = NoResponse
    /\ toolRes = NoToolResponse
    /\ tally = NoTally
    /\ last = [http |-> NoLast, mcp |-> NoLast]
    /\ earlier = NoEarlier
    /\ currentView = "formatted"
    /\ hidden = [resultsContainer |-> FALSE, rawJsonWrapper |-> TRUE,
                 loadingIndicator |-> FALSE]
    /\ inFlight = 1

(***************************************************************************)
(* The lazy adapter instance and the adapter methods up to their await.    *)
(***************************************************************************)
\* PlacesService constructor: throws when the credential is missing
ConstructorThrows(apiKey) == ~Truthy(apiKey)

\* the adapter operation a request asks for
Op(r) ==
    IF r.surface = "http" THEN r.route
    ELSE CASE r.tool = "search_places" -> "search"
           [] r.tool = "find_nearby_places" -> "nearby"
           [] r.tool = "get_place_details" -> "details"
           [] r.tool = "get_place_types" -> "types"
           [] OTHER -> "unknown"

\* the arguments the shell hands to the adapter method
HttpParams(r) ==
    [query |-> r.body.query, location |-> r.body.location,
     radius |-> IF r.route = "nearby" THEN Default(r.body.radius, Num(DefaultRadius))
                ELSE r.body.radius,
     type |-> r.body.type, placeId |-> r.params.placeId]

ToolParams(r) ==
    [query |-> r.body.query,
     location |-> IF Op(r) = "search" /\ ~Truthy(r.body.location) THEN LocScalar(Undefined)
                  ELSE r.body.location,
     radius |-> IF Op(r) = "nearby" THEN Or(r.body.radius, Num(DefaultRadius))
                ELSE IF Truthy(r.body.radius) THEN r.body.radius ELSE Undefined,
     type |-> IF Op(r) = "search" /\ ~Truthy(r.body.type) THEN Undefined ELSE r.body.type,
     placeId |-> r.body.placeId]

Params(r) == IF r.surface = "http" THEN HttpParams(r) ELSE ToolParams(r)

\* the provider request an adapter method builds
ProviderRequest(op, params) ==
    CASE op = "search" -> searchTextRequest(params)
      [] op = "details" -> getPlaceRequest(params.placeId)
      [] op = "nearby" -> searchNearbyRequest(params.location, params.type, params.radius)

AdapterStart_Reconstructs(instance, apiKey, op, params) ==
    IF ConstructorThrows(apiKey)
    THEN [threw |-> TRUE, error |-> Error(MsgKeyRequired), request |-> NoRequest,
          instance |-> "null"]
    ELSE IF op = "nearby" /\ ThrowsOnRead(params.location)
    THEN [threw |-> TRUE, error |-> AdapterError(op), request |-> NoRequest,
          instance |-> IF instance = "null" THEN "instance" ELSE "another"]
    ELSE [threw |-> FALSE, error |-> NoError, request |-> ProviderRequest(op, params),
          instance |-> IF instance = "null" THEN "instance" ELSE "another"]

\* placesService.<method>(...) through the lazy proxy, up to the provider call:
\* the instance getter, then the method's synchronous part
AdapterStart(instance, apiKey, op, params) ==
    IF instance = "null" /\ ConstructorThrows(apiKey)
    THEN [threw |-> TRUE, error |-> Error(MsgKeyRequired), request |-> NoRequest,
          instance |-> "null"]
    ELSE IF op = "nearby" /\ ThrowsOnRead(params.location)
    THEN [threw |-> TRUE, error |-> AdapterError(op), request |-> NoRequest,
          instance |-> "instance"]
    ELSE [threw |-> FALSE, error |-> NoError, request |-> ProviderRequest(op, params),
          instance |-> "instance"]

AdapterResult_Shared(op, response, apiKey) ==
    IF op = "details" THEN [t |-> "details", v |-> formatPlaceDetails(response, apiKey)]
    ELSE [t |-> "list",
          v |-> (IF earlier.t = "some" /\ earlier.result.t = "list" THEN earlier.result.v
                 ELSE <<>>)
                \o formatSearchResults(IF response.t = "undefined" THEN <<>>
                                       ELSE response.v)]

\* what the adapter method returns once the provider call resolved
AdapterResult(op, response, apiKey) ==
    IF op = "details" THEN [t |-> "details", v |-> formatPlaceDetails(response, apiKey)]
    ELSE [t |-> "list",
          v |-> formatSearchResults(IF response.t = "undefined" THEN <<>> ELSE response.v)]

\* the input of a request as its caller gave it
Input(r) ==
    <<r.body.query, r.body.location, r.body.radius, r.body.type,
      IF r.surface = "http" THEN r.params.placeId ELSE r.body.placeId>>

(***************************************************************************)
(* Actions.                                                                *)
(***************************************************************************)
\* server.ts: app.listen
StartHttp ==
    /\ proc.http = "init"
    /\ proc' = [proc EXCEPT !.http = "listening"]
    /\ UNCHANGED <<currentView, hidden, inFlight, env, _placesService, pc, req, nextCalls, providerCalls, outbound, outcome,
                   error, result, res, toolRes, tally, last, earlier>>

\* mcp-server: the startup check, then main()
StartMcp ==
    /\ proc.mcp = "init"
    /\ proc' = [proc EXCEPT !.mcp = IF ~Truthy(env.GOOGLE_PLACES_API_KEY) THEN "exited"
                                    ELSE "connected"]
    /\ UNCHANGED <<currentView, hidden, inFlight, env, _placesService, pc, req, nextCalls, providerCalls, outbound, outcome,
                   error, result, res, toolRes, tally, last, earlier>>

Fresh ==
    /\ nextCalls' = 0
    /\ providerCalls' = 0
    /\ outbound' = NoRequest
    /\ outcome' = NoOutcome
    /\ error' = NoError
    /\ result' = NoResult
    /\ res' = NoResponse
    /\ toolRes' = NoToolResponse
    /\ tally' = NoTally

\* a request arrives at the HTTP server and is routed
HttpReceive(requests, track) ==
    /\ pc = "idle"
    /\ proc.http = "listening"
    /\ \E r \in requests :
        LET i == MatchRoute(r[1], r[2]) IN
        /\ i # 0
        /\ req' = [surface |-> "http", method |-> r[1], path |-> r[2],
                   route |-> Routes[i].handler, tool |-> "",
                   params |-> [placeId |-> PlaceIdParam(Routes[i], r[2])], body |-> r[3]]
        /\ pc' = IF Routes[i].handler \in {"search", "nearby"} THEN "validate" ELSE "handler"
    /\ Fresh
    /\ last' = IF track THEN [last EXCEPT !.http = NoLast] ELSE last
    /\ UNCHANGED <<currentView, hidden, inFlight, env, proc, _placesService, earlier>>

\* the middleware of a validated route runs
Validate(v) ==
    /\ pc' = IF v.next THEN "handler" ELSE "done"
    /\ nextCalls' = IF v.next THEN nextCalls + 1 ELSE nextCalls
    /\ res' = v.res
    /\ tally' = IF v.res.kind # "none" THEN [tally EXCEPT !.json = @ + 1] ELSE tally
    /\ UNCHANGED <<currentView, hidden, inFlight, env, proc, _placesService, req, providerCalls, outbound, outcome, error,
                   result, toolRes, last, earlier>>

ValidateSearch ==
    /\ pc = "validate"
    /\ req.route = "search"
    /\ Validate(validateSearchParams(req.body))

ValidateLocation ==
    /\ pc = "validate"
    /\ req.route = "nearby"
    /\ Validate(validateLocationParams(req.body))

\* an error leaves the shell's call of the adapter
Thrown(e) ==
    IF req.surface = "http"
    THEN /\ error' = e
         /\ pc' = "errorHandler"
         /\ tally' = [tally EXCEPT !.nextError = @ + 1]
         /\ UNCHANGED <<res, toolRes>>
    ELSE /\ toolRes' = ToolError(req.tool, e.message)
         /\ pc' = "done"
         /\ UNCHANGED <<error, res, tally>>

\* the shell calls the adapter method and awaits it
Invoke ==
    LET a == AdapterStart(_placesService[req.surface], env.GOOGLE_PLACES_API_KEY, Op(req),
                          Params(req))
    IN  /\ _placesService' = [_placesService EXCEPT ![req.surface] = a.instance]
        /\ IF a.threw
           THEN /\ Thrown(a.error)
                /\ UNCHANGED <<providerCalls, outbound>>
           ELSE /\ pc' = "await"
                /\ providerCalls' = providerCalls + 1
                /\ outbound' = a.request
                /\ UNCHANGED <<error, res, toolRes, tally>>

\* the route handler runs: health, types, or a call of the adapter
HttpHandler ==
    /\ pc = "handler"
    /\ req.surface = "http"
    /\ IF req.route = "health"
       THEN /\ res' = SuccessResponse("health", NoData, -1)
            /\ pc' = "done"
            /\ tally' = [tally EXCEPT !.json = @ + 1]
            /\ UNCHANGED <<_placesService, providerCalls, outbound, error, toolRes>>
       ELSE IF req.route = "types"
       THEN /\ res' = SuccessResponse("types", commonTypes, -1)
            /\ pc' = "done"
            /\ tally' = [tally EXCEPT !.json = @ + 1]
            /\ UNCHANGED <<_placesService, providerCalls, outbound, error, toolRes>>
       ELSE IF req.route = "details" /\ ~Truthy(req.params.placeId)
       THEN /\ res' = ErrorResponse(400, <<"Place ID is required">>, "", <<>>)
            /\ pc' = "done"
            /\ tally' = [tally EXCEPT !.json = @ + 1]
            /\ UNCHANGED <<_placesService, providerCalls, outbound, error, toolRes>>
       ELSE Invoke
    /\ UNCHANGED <<currentView, hidden, inFlight, env, proc, req, nextCalls, outcome, result, last, earlier>>

\* a tools/call request arrives at the tool-protocol server
ToolReceive(calls, track) ==
    /\ pc = "idle"
    /\ proc.mcp = "connected"
    /\ \E c \in calls :
        req' = [surface |-> "mcp", method |-> "", path |-> <<>>, route |-> "",
                tool |-> c[1], params |-> [placeId |-> Undefined], body |-> c[2]]
    /\ pc' = "handler"
    /\ Fresh
    /\ last' = IF track THEN [last EXCEPT !.mcp = NoLast] ELSE last
    /\ UNCHANGED <<currentView, hidden, inFlight, env, proc, _placesService, earlier>>

\* the CallTool handler dispatches on the tool name
ToolHandler ==
    /\ pc = "handler"
    /\ req.surface = "mcp"
    /\ IF Op(req) = "types"
       THEN /\ toolRes' = ToolSuccess("types", commonTypes, Len(commonTypes))
            /\ pc' = "done"
            /\ UNCHANGED <<_placesService, providerCalls, outbound, error, res, tally>>
       ELSE IF Op(req) = "unknown"
       THEN /\ toolRes' = ToolError(req.tool, <<"Unknown tool: ", req.tool>>)
            /\ pc' = "done"
            /\ UNCHANGED <<_placesService, providerCalls, outbound, error, res, tally>>
       ELSE Invoke
    /\ UNCHANGED <<currentView, hidden, inFlight, env, proc, req, nextCalls, outcome, result, last, earlier>>

\* the provider call resolves: the adapter normalizes, the shell responds
ProviderResolve(details, track, again) ==
    /\ pc = "await"
    /\ \E response \in IF Op(req) = "details" THEN details ELSE ListResponses :
        LET r == AdapterResult(Op(req), response, env.GOOGLE_PLACES_API_KEY)
            n == IF r.t = "list" THEN Len(r.v) ELSE -1
        IN  /\ outcome' = [t |-> "resolved", response |-> response]
            /\ result' = r
            /\ IF req.surface = "http"
               THEN /\ res' = SuccessResponse(r.t, HttpData(r), n)
                    /\ tally' = [tally EXCEPT !.json = @ + 1]
                    /\ UNCHANGED toolRes
               ELSE /\ toolRes' = ToolSuccess(r.t, ToolData(r), n)
                    /\ UNCHANGED <<res, tally>>
            /\ last' = IF track
                       THEN [last EXCEPT ![req.surface] =
                                [t |-> "some", op |-> Op(req), input |-> Input(req),
                                 response |-> response,
                                 data |-> IF req.surface = "http" THEN HttpData(r)
                                          ELSE ToolData(r)]]
                       ELSE last
            /\ \E keep \in IF again /\ earlier.t = "none" THEN BOOLEAN ELSE {TRUE} :
                earlier' =
                    IF ~keep
                    THEN [t |-> "some", surface |-> req.surface, response |-> response,
                          result |-> r, since |-> 0]
                    ELSE IF earlier.t = "some" /\ earlier.since < MaxBetween
                    THEN [earlier EXCEPT !.since = @ + 1]
                    ELSE earlier
    /\ pc' = "done"
    /\ UNCHANGED <<currentView, hidden, inFlight, env, proc, _placesService, req, nextCalls, providerCalls, outbound, error>>

\* the provider call rejects: the adapter's catch block re-raises
ProviderReject ==
    /\ pc = "await"
    /\ \E e \in ProviderErrors :
        /\ outcome' = [t |-> "rejected", error |-> e]
        /\ Thrown(CatchBlock(Op(req), e))
    /\ UNCHANGED <<currentView, hidden, inFlight, env, proc, _placesService, req, nextCalls, providerCalls, outbound, result,
                   last, earlier>>

\* the error-handling middleware answers next(error)
ErrorHandler ==
    /\ pc = "errorHandler"
    /\ res' = errorHandler(error, env.NODE_ENV)
    /\ tally' = [tally EXCEPT !.json = @ + 1]
    /\ pc' = "done"
    /\ UNCHANGED <<currentView, hidden, inFlight, env, proc, _placesService, req, nextCalls, providerCalls, outbound, outcome,
                   error, result, toolRes, last, earlier>>

\* a middleware ahead of the routes (express.json) passes an error to next
MiddlewareError ==
    /\ pc = "idle"
    /\ proc.http = "listening"
    /\ \E r \in ValidHttpRequests :
        req' = [surface |-> "http", method |-> r[1], path |-> r[2], route |-> "",
                tool |-> "", params |-> [placeId |-> Undefined], body |-> EmptyBody]
    /\ \E e \in ErrorInputs : error' = e
    /\ tally' = [tally EXCEPT !.nextError = @ + 1]
    /\ pc' = "errorHandler"
    /\ UNCHANGED <<currentView, hidden, inFlight, env, proc, _placesService, nextCalls, providerCalls, outbound, outcome,
                   result, res, toolRes, last, earlier>>

\* the exchange is over: nothing of the request outlives it
Complete ==
    /\ pc = "done"
    /\ pc' = "idle"
    /\ req' = NoReq
    /\ Fresh
    /\ UNCHANGED <<currentView, hidden, inFlight, env, proc, _placesService, last, earlier>>

Next ==
    \/ StartHttp
    \/ StartMcp
    \/ HttpReceive(HttpRequests, FALSE)
    \/ ValidateSearch
    \/ ValidateLocation
    \/ HttpHandler
    \/ ToolReceive(ToolCalls, FALSE)
    \/ ToolHandler
    \/ ProviderResolve(DetailPlaces, FALSE, FALSE)
    \/ ProviderReject
    \/ ErrorHandler
    \/ Complete

Spec == Init /\ [][Next]_vars

\* both surfaces serving the inputs they both accept, the last exchange of each kept
NextPair ==
    \/ StartHttp
    \/ StartMcp
    \/ HttpReceive(ValidHttpRequests, TRUE)
    \/ ValidateSearch
    \/ ValidateLocation
    \/ HttpHandler
    \/ ToolReceive(ValidToolCalls, TRUE)
    \/ ToolHandler
    \/ ProviderResolve(PairDetailPlaces, TRUE, FALSE)
    \/ ProviderReject
    \/ ErrorHandler
    \/ Complete

SpecPair == Init /\ [][NextPair]_vars

\* both surfaces, one earlier normalization kept to compare later ones with
NextTwice ==
    \/ StartHttp
    \/ StartMcp
    \/ HttpReceive(ValidHttpRequests, FALSE)
    \/ ValidateSearch
    \/ ValidateLocation
    \/ HttpHandler
    \/ ToolReceive(ValidToolCalls, FALSE)
    \/ ToolHandler
    \/ ProviderResolve(PairDetailPlaces, FALSE, TRUE)
    \/ ProviderReject
    \/ ErrorHandler
    \/ Complete

SpecTwice == Init /\ [][NextTwice]_vars

\* both surfaces, the properties of the place a detail call resolves with varied
NextFields ==
    \/ StartHttp
    \/ StartMcp
    \/ HttpReceive(ValidHttpRequests, FALSE)
    \/ ValidateSearch
    \/ ValidateLocation
    \/ HttpHandler
    \/ ToolReceive(ValidToolCalls, FALSE)
    \/ ToolHandler
    \/ ProviderResolve(FieldPlaces, FALSE, FALSE)
    \/ ProviderReject
    \/ ErrorHandler
    \/ Complete

SpecFields == Init /\ [][NextFields]_vars

(***************************************************************************)
(* Browser client.  The page starts as init() leaves it: the listeners are *)
(* set and checkApiHealth() has called showLoading() and awaits /health.   *)
(***************************************************************************)
showLoading(h) == [h EXCEPT !.loadingIndicator = FALSE]

hideLoading(h) == [h EXCEPT !.loadingIndicator = TRUE]

\* showResults and showError: the view is set to formatted and the raw-JSON
\* wrapper hidden; the results container's class list is not touched
showResults(h) == [h EXCEPT !.rawJsonWrapper = TRUE]

\* a request starts: showLoading(), then the fetch is awaited
StartRequest ==
    /\ inFlight < MaxInFlight
    /\ hidden' = showLoading(hidden)
    /\ inFlight' = inFlight + 1
    /\ UNCHANGED currentView

\* a form handler found its input wanting: showError(...) and return
InputError ==
    /\ hidden' = showResults(hidden)
    /\ currentView' = "formatted"
    /\ UNCHANGED inFlight

\* the health-check button
CheckApiHealth ==
    /\ StartRequest
    /\ UNCHANGED serverVars

HandleSearch ==
    /\ \E queryGiven \in BOOLEAN : IF queryGiven THEN StartRequest ELSE InputError
    /\ UNCHANGED serverVars

HandleNearbySearch ==
    /\ \E inputGiven \in BOOLEAN : IF inputGiven THEN StartRequest ELSE InputError
    /\ UNCHANGED serverVars

HandlePlaceDetails ==
    /\ \E placeIdGiven \in BOOLEAN : IF placeIdGiven THEN StartRequest ELSE InputError
    /\ UNCHANGED serverVars

\* an awaited fetch settles: the try or the catch block shows a result or an
\* error through showResults, then the finally block calls hideLoading()
RequestSettles ==
    /\ inFlight > 0
    /\ hidden' = hideLoading(showResults(hidden))
    /\ currentView' = "formatted"
    /\ inFlight' = inFlight - 1
    /\ UNCHANGED serverVars

ToggleResultView ==
    /\ IF currentView = "formatted"
       THEN /\ hidden' = [hidden EXCEPT !.resultsContainer = TRUE, !.rawJsonWrapper = FALSE]
            /\ currentView' = "json"
       ELSE /\ hidden' = [hidden EXCEPT !.resultsContainer = FALSE, !.rawJsonWrapper = TRUE]
            /\ currentView' = "formatted"
    /\ UNCHANGED <<inFlight, serverVars>>

\* the clear button, and every change of tab
ClearResults ==
    /\ hidden' = [hidden EXCEPT !.rawJsonWrapper = TRUE]
    /\ currentView' = "formatted"
    /\ UNCHANGED <<inFlight, serverVars>>

NextClient ==
    \/ CheckApiHealth
    \/ HandleSearch
    \/ HandleNearbySearch
    \/ HandlePlaceDetails
    \/ RequestSettles
    \/ ToggleResultView
    \/ ClearResults

SpecClient == Init /\ [][NextClient]_vars

\* the HTTP server answering errors raised ahead of its routes
NextErrors ==
    \/ StartHttp
    \/ MiddlewareError
    \/ ErrorHandler
    \/ Complete

SpecErrors == Init /\ [][NextErrors]_vars

(***************************************************************************)
(* Properties.                                                             *)
(***************************************************************************)
Min(a, b) == IF a < b THEN a ELSE b

HttpDone == req.surface = "http" /\ pc = "done"

ProviderFailed == outcome.t = "rejected"

\* C1: on the HTTP surface, a search, nearby or detail request whose provider
\* call failed with a quota signal (message containing 'quota', or code
\* OVER_QUERY_LIMIT) is answered with status 429 and code QUOTA_EXCEEDED.
C1_QuotaAnswered429 ==
    (/\ HttpDone
     /\ ProviderFailed
     /\ (Includes(outcome.error.message, <<"quota">>)
         \/ outcome.error.code = "OVER_QUERY_LIMIT"))
    => (res.status = 429 /\ res.code = "QUOTA_EXCEEDED")

\* C2: on the HTTP surface, a search, nearby or detail request whose provider
\* call failed with an authentication signal (message containing 'API key', or
\* code REQUEST_DENIED) is answered with status 401 and code INVALID_API_KEY.
C2_AuthAnswered401 ==
    (/\ HttpDone
     /\ ProviderFailed
     /\ (Includes(outcome.error.message, <<"API key">>)
         \/ outcome.error.code = "REQUEST_DENIED"))
    => (res.status = 401 /\ res.code = "INVALID_API_KEY")

IsGetTypes ==
    /\ req.surface = "http"
    /\ req.method = "GET"
    /\ req.path = <<"api", "places", "types">>

\* C3: GET /api/places/types is answered by the static enumeration handler: a
\* success envelope whose data is the fixed list of 29 place types, with no
\* provider call made for the request.
C3_TypesServedStatically ==
    IsGetTypes
    => /\ providerCalls = 0
       /\ pc = "done" => /\ res.kind = "types"
                         /\ res.success
                         /\ res.data = commonTypes
                         /\ Len(res.data) = 29

\* C4: for the same operation, the same valid input and the same provider
\* response, the HTTP shell and the tool-protocol shell return identical
\* normalized results (same items in the same order; same PlaceDetails with
\* identical reviews and photos).
C4_ShellsAgree ==
    (/\ last.http.t = "some"
     /\ last.mcp.t = "some"
     /\ last.http.op = last.mcp.op
     /\ last.http.input = last.mcp.input
     /\ last.http.response = last.mcp.response)
    => last.http.data = last.mcp.data

InRange(v, lo, hi) == v.t = "number" /\ v.n >= lo /\ v.n <= hi

IsBlank(v) == v.t = "string" /\ Trim(v.s) = <<>>

\* the bodies C5 lists as failing validation
NearbyInvalid(b) ==
    \/ b.location.t = "undefined"
    \/ b.location.t = "object" /\ b.location.lat.t = "number"
       /\ ~InRange(b.location.lat, -90, 90)
    \/ b.location.t = "object" /\ b.location.lng.t = "number"
       /\ ~InRange(b.location.lng, -180, 180)
    \/ b.type.t = "undefined"
    \/ IsBlank(b.type)
    \/ b.radius.t # "undefined"
       /\ ~(b.radius.t = "number" /\ b.radius.n > 0 /\ b.radius.n <= 50000)

IsHttpNearby == req.surface = "http" /\ req.route = "nearby"

\* C5: a POST /nearby request whose body fails validation is answered with a
\* 400 error envelope, the validator never calls next() for it, and no
\* provider call is ever made for it.
C5_InvalidNearbyNeverCallsProvider ==
    (IsHttpNearby /\ NearbyInvalid(req.body))
    => /\ providerCalls = 0
       /\ nextCalls = 0
       /\ pc \in {"validate", "done"}
       /\ pc = "done" => (res.status = 400 /\ ~res.success /\ res.kind = "error")

\* C5 witness: the latitude-200 request of the specification was rejected
C5_Witness ==
    /\ IsHttpNearby
    /\ req.body.location = LocObject(Num(200), Num(0))
    /\ req.body.type = Str(<<"cafe">>)
    /\ req.body.radius = Undefined
    /\ pc = "done"
    /\ res.status = 400

\* the arguments that violate the declared input schema of the tool
SchemaViolation(r) ==
    LET b == r.body
        badLocation ==
            /\ b.location.t = "object"
            /\ \/ b.location.lat.t = "number" /\ ~InRange(b.location.lat, -90, 90)
               \/ b.location.lng.t = "number" /\ ~InRange(b.location.lng, -180, 180)
        badRadius == b.radius.t = "number" /\ ~InRange(b.radius, 1, 50000)
    IN  \/ r.tool = "search_places"
           /\ (b.query.t = "undefined" \/ badLocation \/ badRadius)
        \/ r.tool = "find_nearby_places"
           /\ (b.location.t = "undefined" \/ b.type.t = "undefined" \/ badLocation
               \/ badRadius)
        \/ r.tool = "get_place_details" /\ b.placeId.t = "undefined"

\* C6: a tool invocation whose arguments violate the tool's declared input
\* schema is rejected, and no provider call is made for it.
C6_SchemaViolationsRejected ==
    (req.surface = "mcp" /\ SchemaViolation(req))
    => /\ providerCalls = 0
       /\ pc = "done" => toolRes.isError

IsHttpSearch == req.surface = "http" /\ req.route = "search"

QueryOk(b) == b.query.t = "string" /\ Len(Trim(b.query.s)) > 0

RadiusOk(b) == b.radius.t = "undefined" \/ (b.radius.t = "number" /\ b.radius.n > 0
                                            /\ b.radius.n <= 50000)

\* type, when present, is a non-empty string
TypeNonEmpty(b) == b.type.t = "undefined" \/ (b.type.t = "string" /\ Len(b.type.s) > 0)

\* type, when present, is a string whose trimmed length is greater than 0
TypeNonBlank(b) ==
    b.type.t = "undefined" \/ (b.type.t = "string" /\ Len(Trim(b.type.s)) > 0)

\* the message of the first violated rule, in the order query, radius, type
FirstViolation(b) ==
    IF ~QueryOk(b) THEN <<"Query parameter is required and must be a non-empty string">>
    ELSE IF ~RadiusOk(b) THEN <<"Radius must be a number between 1 and 50000 meters">>
    ELSE <<"Type must be a non-empty string if provided">>

\* the search validator decided on a body without location
SearchDecided == IsHttpSearch /\ req.body.location.t = "undefined" /\ pc # "validate"

SearchRule(ok) ==
    SearchDecided
    => /\ (nextCalls = 1) <=> ok
       /\ ok => pc # "done" \/ res.status # 400
       /\ ~ok => /\ pc = "done"
                 /\ providerCalls = 0
                 /\ res.status = 400
                 /\ res.error = FirstViolation(req.body)

\* C7 (as stated): a POST /search body without location reaches the adapter
\* iff query is a string of trimmed length > 0, radius (when present) is a
\* number in (0, 50000] and type (when present) is a non-empty string;
\* otherwise the response is the 400 of the first violated rule.
C7_AsStated ==
    SearchRule(QueryOk(req.body) /\ RadiusOk(req.body) /\ TypeNonEmpty(req.body))

\* C7 (amended): a POST /search body without location reaches the adapter iff
\* query is a string of trimmed length > 0, radius (when present) is a number
\* in (0, 50000] and type (when present) is a string of trimmed length > 0;
\* otherwise the response is the 400 of the first violated rule in the order
\* query, radius, type.
C7_SearchValidation ==
    SearchRule(QueryOk(req.body) /\ RadiusOk(req.body) /\ TypeNonBlank(req.body))

\* C7 witness: a whitespace-only type was rejected by the type rule
C7_Witness ==
    /\ SearchDecided
    /\ QueryOk(req.body)
    /\ req.body.radius = Num(1000)
    /\ req.body.type = Str(<<" ">>)
    /\ pc = "done"
    /\ res.status = 400
    /\ res.error = <<"Type must be a non-empty string if provided">>

\* an object with numeric lat in [-90, 90] and numeric lng in [-180, 180]
LocationOk(l) ==
    l.t = "object" /\ InRange(l.lat, -90, 90) /\ InRange(l.lng, -180, 180)

\* C8: the search validator rejects with a 400 every location that is present
\* (any JSON value, null, false, 0 and "" included) and is not a valid
\* location object; the nearby validator rejects a missing location as well.
C8_BadLocationRejected ==
    /\ (IsHttpSearch /\ pc # "validate" /\ req.body.location.t # "undefined"
        /\ ~LocationOk(req.body.location))
       => (pc = "done" /\ res.status = 400 /\ nextCalls = 0)
    /\ (IsHttpNearby /\ pc # "validate" /\ ~LocationOk(req.body.location))
       => (pc = "done" /\ res.status = 400 /\ nextCalls = 0)

\* the provider places the adapter normalized for the request
NormalizedFrom ==
    IF outcome.t # "resolved" THEN <<>>
    ELSE IF result.t = "details" THEN <<outcome.response>>
    ELSE IF outcome.response.t = "undefined" THEN <<>>
    ELSE outcome.response.v

Normalized == IF result.t = "details" THEN <<result.v>> ELSE result.v

\* C9: every normalized result has a non-empty id: the provider id when
\* present, otherwise the trailing path segment of the provider resource name;
\* never null, undefined or empty.
C9_IdNeverEmpty ==
    (pc = "done" /\ outcome.t = "resolved")
    => \A i \in 1..Len(NormalizedFrom) :
        LET place == NormalizedFrom[i]
            id == Normalized[i].id
        IN  /\ id.t = "string"
            /\ id.s # <<>>
            /\ place.id.t = "string" /\ place.id.s # <<>> => id = place.id
            /\ place.id.t = "undefined" => id.s = LastSegment(place.name.s)

ProvidedCount(array) == IF array.t = "undefined" THEN 0 ELSE Len(array.v)

DetailsNormalized == pc = "done" /\ outcome.t = "resolved" /\ result.t = "details"

\* C10: for a provider detail response with n reviews and m photos, the
\* normalized PlaceDetails holds exactly min(n,5) reviews and min(m,5) photos:
\* the first ones of the provider response, in their original order.
C10_FirstFiveInOrder ==
    DetailsNormalized
    => LET place == outcome.response
           n == ProvidedCount(place.reviews)
           m == ProvidedCount(place.photos)
       IN  /\ Len(result.v.reviews) = Min(n, 5)
           /\ Len(result.v.photos) = Min(m, 5)
           /\ \A i \in 1..Min(n, 5) :
                /\ result.v.reviews[i].time = place.reviews.v[i].publishTime
                /\ result.v.reviews[i].rating = place.reviews.v[i].rating
           /\ \A i \in 1..Min(m, 5) :
                result.v.photos[i] = PhotoUrl(place.photos.v[i], env.GOOGLE_PLACES_API_KEY)

\* C10 witness: 8 reviews and 9 photos gave 5 and 5
C10_Witness ==
    /\ DetailsNormalized
    /\ ProvidedCount(outcome.response.reviews) = 8
    /\ ProvidedCount(outcome.response.photos) = 9
    /\ Len(result.v.reviews) = 5
    /\ Len(result.v.photos) = 5

\* C11: a text search whose location is omitted sends the provider a request
\* with no locationBias at all, whether or not a radius was supplied.
C11_NoBiasWithoutLocation ==
    (outbound.method = "searchText" /\ req.body.location.t = "undefined")
    => outbound.locationBias = NoCircle

\* C11 witness: a validated HTTP search with a radius and no location went out
C11_Witness ==
    /\ IsHttpSearch
    /\ outbound.method = "searchText"
    /\ req.body.location.t = "undefined"
    /\ req.body.radius = Num(1000)
    /\ outbound.locationBias.t = "undefined"

\* C12: on both surfaces a nearby request that omits radius restricts the
\* provider request to a circle of radius exactly 5000, and one that supplies a
\* valid radius r to a circle of radius exactly r.
C12_NearbyRadius ==
    outbound.method = "searchNearby"
    => LET r == req.body.radius
           sent == outbound.locationRestriction.radius
       IN  /\ r.t = "undefined" => sent = Num(5000)
           /\ InRange(r, 1, MaxRadius) => sent = r

\* C12 witness: a tool nearby call without radius went out with 5000
C12_Witness ==
    /\ req.surface = "mcp"
    /\ outbound.method = "searchNearby"
    /\ req.body.radius.t = "undefined"
    /\ outbound.locationRestriction.radius = Num(5000)

\* C13: every successful POST /search has success true, data equal to the
\* normalization of the provider's places in the provider's order, and count
\* equal to the length of data and to the number of places the provider
\* returned; a provider response without a places list gives count 0 and
\* empty data.
C13_SearchCountsAndOrder ==
    (HttpDone /\ IsHttpSearch /\ res.status = 200)
    => /\ outcome.t = "resolved"
       /\ res.success
       /\ res.count = Len(res.data)
       /\ res.count = ProvidedCount(outcome.response)
       /\ \A i \in 1..Len(NormalizedFrom) :
            res.data[i] = JsonResult(formatSearchResult(NormalizedFrom[i]))
       /\ outcome.response.t = "undefined" => (res.count = 0 /\ res.data = <<>>)

\* C13 witness: three provider places answered with count 3
C13_Witness ==
    /\ HttpDone
    /\ IsHttpSearch
    /\ res.status = 200
    /\ ProvidedCount(outcome.response) = 3
    /\ res.count = 3
    /\ Len(res.data) = 3

\* C14: a provider place without a location is normalized with location
\* exactly {lat: 0, lng: 0}, and the normalization raises no error.
C14_MissingLocationIsOrigin ==
    (pc = "done" /\ outcome.t = "resolved")
    => /\ \A i \in 1..Len(NormalizedFrom) :
            NormalizedFrom[i].location.t = "undefined"
            => Normalized[i].location = [lat |-> Num(0), lng |-> Num(0)]
       /\ error = NoError
       /\ req.surface = "http" => res.status = 200
       /\ req.surface = "mcp" => ~toolRes.isError

\* C14 witness: a list holding a place without location was normalized
C14_Witness ==
    /\ pc = "done"
    /\ outcome.t = "resolved"
    /\ \E i \in 1..Len(NormalizedFrom) :
        /\ NormalizedFrom[i].location.t = "undefined"
        /\ Normalized[i].location = [lat |-> Num(0), lng |-> Num(0)]

GenericMessage(op) ==
    CASE op = "search" -> <<"Failed to search places">>
      [] op = "details" -> <<"Failed to get place details">>
      [] op = "nearby" -> <<"Failed to find nearby places">>

\* the text holds a part of the provider error's message, or its code
ExposesProvider(text) ==
    \E i \in 1..Len(text) :
        \/ \E j \in 1..Len(outcome.error.message) : text[i] = outcome.error.message[j]
        \/ outcome.error.code # NoCode /\ text[i] = outcome.error.code

\* C16: when the provider call fails, the error that leaves the adapter is the
\* operation's fixed generic error, without the provider's message or code, and
\* the error response of either surface exposes nothing of the provider error.
C16_ProviderDetailNeverLeaves ==
    ProviderFailed
    => /\ req.surface = "http"
          => /\ error.message = GenericMessage(Op(req))
             /\ error.code = NoCode
             /\ pc = "done"
                => /\ ~res.success
                   /\ ~ExposesProvider(res.error)
                   /\ ~ExposesProvider(<<res.code>>)
                   /\ \A i \in 1..Len(res.details) : ~ExposesProvider(res.details[i])
       /\ req.surface = "mcp"
          => /\ toolRes.isError
             /\ toolRes.text = <<"Error executing ", req.tool, ": ">> \o GenericMessage(Op(req))
             /\ ~ExposesProvider(toolRes.text)

\* C16 witness: a provider error carrying a message and a code was answered by
\* the HTTP surface
C16_Witness ==
    /\ HttpDone
    /\ ProviderFailed
    /\ outcome.error.code = "REQUEST_DENIED"
    /\ error.message = GenericMessage(Op(req))
    /\ ~res.success

\* a tool invocation that failed: the provider call was rejected, the adapter
\* threw before calling, or the tool name is unknown
ToolFailed ==
    \/ ProviderFailed
    \/ Op(req) = "unknown"
    \/ Op(req) \in {"search", "nearby", "details"} /\ providerCalls = 0

ToolFailureMessage ==
    IF Op(req) = "unknown" THEN <<"Unknown tool: ", req.tool>> ELSE GenericMessage(Op(req))

\* C17: on the tool surface every invocation ends in a tool response; a failing
\* one (adapter error or unknown tool name) in a response flagged isError whose
\* text is "Error executing <name>: <message>".  Nothing is raised to the
\* transport.
C17_ToolFailuresAreResponses ==
    (req.surface = "mcp" /\ pc = "done")
    => /\ toolRes.kind # "none"
       /\ error = NoError
       /\ ToolFailed
          => /\ toolRes.isError
             /\ toolRes.text = <<"Error executing ", req.tool, ": ">> \o ToolFailureMessage
       /\ ~ToolFailed => ~toolRes.isError

\* C17 witness: an unknown tool name was answered with a flagged response
C17_Witness ==
    /\ req.surface = "mcp"
    /\ pc = "done"
    /\ req.tool = "delete_place"
    /\ toolRes.isError
    /\ toolRes.text = <<"Error executing ", "delete_place", ": ", "Unknown tool: ", "delete_place">>

\* the caller asked for the type enumeration or the health check
IsEnumerationOrHealth ==
    \/ IsGetTypes
    \/ req.surface = "http" /\ req.route = "health"
    \/ req.surface = "mcp" /\ Op(req) = "types"

Responded == res.kind # "none" \/ toolRes.kind # "none"

\* C18: a request makes at most one provider call and is answered only after
\* that call completed; a failed call is not attempted again; the type
\* enumeration and the health check make no provider call.
C18_OneCallPerRequest ==
    /\ providerCalls <= 1
    /\ (Responded /\ providerCalls = 1) => outcome.t # "none"
    /\ outcome.t # "none" => providerCalls = 1
    /\ (pc = "done" /\ IsEnumerationOrHealth) => providerCalls = 0

\* C19: with GOOGLE_PLACES_API_KEY unset neither server starts: the tool
\* server never reaches connected and the HTTP server never reaches listening.
C19_NoStartWithoutKey ==
    ~Truthy(env.GOOGLE_PLACES_API_KEY)
    => (proc.http # "listening" /\ proc.mcp # "connected")

\* the error matches none of the handler's named classes
Unclassified(e) ==
    /\ ~Includes(e.message, <<"quota">>)
    /\ e.code # "OVER_QUERY_LIMIT"
    /\ ~Includes(e.message, <<"API key">>)
    /\ e.code # "REQUEST_DENIED"
    /\ e.name # "ValidationError"

\* C20: an error of no named class is answered 500 with the message
\* 'Internal server error occurred.' and the code INTERNAL_ERROR; the raw error
\* message is attached as details when NODE_ENV is 'development' and only then:
\* in production, and with NODE_ENV unset, there are no details.
C20_UnclassifiedIs500 ==
    (HttpDone /\ error.name # "none" /\ Unclassified(error))
    => /\ res.status = 500
       /\ res.error = <<"Internal server error occurred.">>
       /\ res.code = "INTERNAL_ERROR"
       /\ env.NODE_ENV = Str(<<"development">>) => res.details = <<error.message>>
       /\ env.NODE_ENV # Str(<<"development">>) => res.details = <<>>

\* C20 witness: in production an adapter error was answered 500 without details
C20_Witness ==
    /\ HttpDone
    /\ error.name = "Error"
    /\ Unclassified(error)
    /\ env.NODE_ENV = Str(<<"production">>)
    /\ res.status = 500
    /\ res.details = <<>>

\* C21: a provider place with any subset of its optional properties missing is
\* normalized without an error, and types, openingHours, reviews and photos
\* are empty sequences when the provider left them out.
C21_MissingOptionalFieldsDefault ==
    (pc = "done" /\ outcome.t = "resolved")
    => /\ result.t # "none"
       /\ Len(Normalized) = Len(NormalizedFrom)
       /\ error = NoError /\ ~toolRes.isError /\ ~(res.kind = "error")
       /\ \A i \in 1..Len(NormalizedFrom) :
            NormalizedFrom[i].types.t = "undefined" => Normalized[i].types = <<>>
       /\ result.t = "details"
          => LET place == outcome.response IN
             /\ (place.currentOpeningHours.t = "undefined"
                 \/ place.currentOpeningHours.weekdayDescriptions.t = "undefined")
                => result.v.openingHours = <<>>
             /\ place.reviews.t = "undefined" => result.v.reviews = <<>>
             /\ place.photos.t = "undefined" => result.v.photos = <<>>

\* C21 witness: a place without display name, types, opening hours and reviews
\* but with photos was normalized
C21_Witness ==
    /\ pc = "done"
    /\ outcome.t = "resolved"
    /\ result.t = "details"
    /\ outcome.response
        = PlaceWithout({"displayName", "types", "currentOpeningHours", "reviews"})
    /\ result.v.types = <<>>
    /\ result.v.openingHours = <<>>
    /\ result.v.reviews = <<>>
    /\ Len(result.v.photos) = 2

\* a non-empty string
Filled(v) == v.t = "string" /\ v.s # <<>>

\* C22: every normalized result has a non-empty name and a non-empty address:
\* the provider's display-name text and formatted address when they are present
\* and non-empty, and otherwise exactly "Unknown" and "Address not available".
C22_NameAndAddressDefaults ==
    (pc = "done" /\ outcome.t = "resolved")
    => \A i \in 1..Len(NormalizedFrom) :
        LET place == NormalizedFrom[i]
            r == Normalized[i]
            named == place.displayName.t # "undefined" /\ Filled(place.displayName.text)
        IN  /\ Filled(r.name)
            /\ Filled(r.address)
            /\ named => r.name = place.displayName.text
            /\ ~named => r.name = Str(<<"Unknown">>)
            /\ Filled(place.formattedAddress) => r.address = place.formattedAddress
            /\ ~Filled(place.formattedAddress)
               => r.address = Str(<<"Address not available">>)

\* C22 witness: a place whose display-name text and address are empty strings
\* was normalized with both placeholders
C22_Witness ==
    /\ pc = "done"
    /\ outcome.t = "resolved"
    /\ result.t = "details"
    /\ outcome.response.displayName = DisplayName(Str(<<>>))
    /\ outcome.response.formattedAddress = Str(<<>>)
    /\ result.v.name = Str(<<"Unknown">>)
    /\ result.v.address = Str(<<"Address not available">>)

\* the provider supplied a live open-now value
OpenNowGiven(place) ==
    place.currentOpeningHours.t # "undefined"
    /\ place.currentOpeningHours.openNow.t # "undefined"

\* C23: the normalized isOpen is never defaulted: it is the provider's open-now
\* value when there is one (true stays true, false stays false) and undefined
\* exactly when there is none.
C23_IsOpenNeverDefaulted ==
    (pc = "done" /\ outcome.t = "resolved")
    => \A i \in 1..Len(NormalizedFrom) :
        LET place == NormalizedFrom[i]
            r == Normalized[i]
        IN  /\ OpenNowGiven(place) => r.isOpen = place.currentOpeningHours.openNow
            /\ r.isOpen.t = "undefined" <=> ~OpenNowGiven(place)

\* C23 witness: a place whose open-now value is false was normalized with
\* isOpen false
C23_Witness ==
    /\ pc = "done"
    /\ outcome.t = "resolved"
    /\ result.t = "details"
    /\ outcome.response.currentOpeningHours = OpeningHours(Bool(FALSE), Absent)
    /\ result.v.isOpen = Bool(FALSE)

\* C24: the provider request of a text search has maxResultCount 10 and the
\* query; when location is present it has a location-bias circle centred on
\* the location with the supplied radius, or 5000 when radius is omitted; it
\* has a type filter if and only if type is present.
C24_TextSearchRequestShape ==
    outbound.method = "searchText"
    => /\ outbound.maxResultCount = 10
       /\ outbound.textQuery = req.body.query
       /\ req.body.location.t # "undefined"
          => outbound.locationBias
             = Circle(req.body.location,
                      IF req.body.radius.t = "undefined" THEN Num(5000)
                      ELSE req.body.radius)
       /\ outbound.includedType.t # "undefined" <=> req.body.type.t # "undefined"

\* the shell is about to call an adapter method through the proxy
AdapterCalled(s) ==
    /\ pc = "handler"
    /\ req.surface = s
    /\ Op(req) \in {"search", "nearby", "details"}
    /\ (s = "http" /\ req.route = "details") => Truthy(req.params.placeId)

\* C25: in each process the provider client does not exist before the first
\* adapter call, is constructed by an adapter call and at most once, and is
\* the same instance ever after; a construction that throws for the missing
\* credential caches nothing, and the next call constructs again.
C25_LazyInstance ==
    /\ \A s \in {"http", "mcp"} : _placesService[s] = "null"
    /\ [][\A s \in {"http", "mcp"} :
            /\ _placesService[s] # "null" => _placesService'[s] = _placesService[s]
            /\ _placesService'[s] # _placesService[s]
               => AdapterCalled(s) /\ Truthy(env.GOOGLE_PLACES_API_KEY)
            /\ (AdapterCalled(s) /\ pc' # pc /\ _placesService[s] = "null")
               => IF Truthy(env.GOOGLE_PLACES_API_KEY)
                  THEN _placesService'[s] = "instance"
                  ELSE /\ _placesService'[s] = "null"
                       /\ providerCalls' = 0
                       /\ error' = Error(MsgKeyRequired)]_vars

\* C25 witness: the HTTP process, having normalized a response in an earlier
\* request, awaits the provider again with the instance it built then
C25_Witness ==
    /\ req.surface = "http"
    /\ pc = "await"
    /\ earlier.t = "some"
    /\ earlier.surface = "http"
    /\ _placesService.http = "instance"

QuotaMatch(e) == Includes(e.message, <<"quota">>) \/ e.code = "OVER_QUERY_LIMIT"

ApiKeyMatch(e) == Includes(e.message, <<"API key">>) \/ e.code = "REQUEST_DENIED"

\* C26: the error handler answers every error with one response chosen by a
\* fixed precedence: a quota match gives 429, otherwise an API-key match gives
\* 401, otherwise the name ValidationError gives 400, otherwise 500; so a
\* ValidationError whose message holds 'quota' or 'API key' is answered 429
\* or 401 and not 400.
C26_HandlerPrecedence ==
    (HttpDone /\ error.name # "none")
    => /\ res.kind = "error"
       /\ QuotaMatch(error) => res.status = 429
       /\ (~QuotaMatch(error) /\ ApiKeyMatch(error)) => res.status = 401
       /\ (~QuotaMatch(error) /\ ~ApiKeyMatch(error) /\ error.name = "ValidationError")
          => res.status = 400
       /\ (~QuotaMatch(error) /\ ~ApiKeyMatch(error) /\ error.name # "ValidationError")
          => res.status = 500
       /\ (error.name = "ValidationError"
           /\ (Includes(error.message, <<"quota">>)
               \/ Includes(error.message, <<"API key">>)))
          => res.status \in {429, 401}

\* C26 witness: a ValidationError whose message holds both 'quota' and
\* 'API key' was answered 429
C26_Witness ==
    /\ HttpDone
    /\ error.name = "ValidationError"
    /\ Includes(error.message, <<"quota">>)
    /\ Includes(error.message, <<"API key">>)
    /\ res.status = 429

\* an HTTP request served by POST /search, POST /nearby or GET /:placeId
IsRouted == req.surface = "http" /\ req.route \in {"search", "nearby", "details"}

\* C27: an HTTP request to POST /search, POST /nearby or GET /:placeId gets
\* exactly one response: the validator either sends one 400 or calls next()
\* once, never both and never neither; the handler either sends one success
\* envelope or forwards one error, which the error handler answers once; and
\* as long as the request is not waiting for the provider, its next step can
\* be taken.
C27_ExactlyOneResponse ==
    IsRouted
    => /\ tally.json <= 1 /\ tally.nextError <= 1 /\ nextCalls <= 1
       /\ (req.route \in {"search", "nearby"} /\ pc # "validate")
          => IF nextCalls = 0
             THEN pc = "done" /\ tally.json = 1 /\ res.status = 400
             ELSE nextCalls = 1 /\ (pc = "handler" => tally.json = 0)
       /\ pc \in {"validate", "handler", "await"} => tally = NoTally
       /\ pc = "errorHandler" => tally = [json |-> 0, nextError |-> 1]
       /\ pc = "done"
          => /\ tally.json = 1
             /\ res.kind # "none"
             /\ res.success => tally.nextError = 0
             /\ tally.nextError = 1 => res.kind = "error"
       /\ pc \in {"validate", "handler", "errorHandler"}
          => ENABLED (ValidateSearch \/ ValidateLocation \/ HttpHandler \/ ErrorHandler)

\* C27 witness: a search whose provider call failed was answered once, by the
\* error handler
C27_Witness ==
    /\ HttpDone
    /\ IsHttpSearch
    /\ ProviderFailed
    /\ nextCalls = 1
    /\ tally = [json |-> 1, nextError |-> 1]
    /\ res.status = 500

\* C28: in the browser client the view state is consistent after any sequence
\* of toggleResultView, showResults, showError and clearResults: with
\* currentView 'formatted' the results container is visible and the raw-JSON
\* wrapper hidden, with currentView 'json' the reverse.
C28_ViewConsistent ==
    /\ currentView = "formatted"
       => (~hidden.resultsContainer /\ hidden.rawJsonWrapper)
    /\ currentView = "json"
       => (hidden.resultsContainer /\ ~hidden.rawJsonWrapper)

\* C29: in the browser client the loading indicator is visible whenever a
\* request is in flight and hidden once none is, however requests overlap.
C29_LoadingWhileInFlight ==
    inFlight > 0 <=> ~hidden.loadingIndicator

====
